---- MODULE Spec2Model ----
(***************************************************************************)
(* EORA RAG service: session memory, request orchestration, source         *)
(* extraction and text chunking, modelled from src/src/rag_service.py and  *)
(* src/src/vectorstore.py.                                                 *)
(***************************************************************************)
EXTENDS Integers, Sequences, FiniteSets, TLC

\* ------------------------------------------------------------------ bounds
MaxAppends == 15        \* appends to session "s1" in SpecSession
MaxOtherAppends == 1    \* appends to every other session in SpecSession
MaxTurnsArg == 11       \* largest max_messages passed to _get_session_history
MaxCalls == 3           \* get_answer calls in Spec
MaxResults == 3         \* length of a search result list in SpecSources
CallsPerThread == 1     \* get_answer calls of one thread in SpecConc
MaxTextLen == 6         \* longest text in SpecChunk
MaxSpaces == 1          \* whitespace characters of a text in SpecChunk
MaxIters == 6           \* iterations of the chunking loop that are followed
DocLen == 2500          \* length of the document in SpecDoc
MaxCases == 2           \* cases of one add_cases run in SpecIngest
MaxChunks == 2          \* chunks of one case in SpecIngest
MaxRuns == 2            \* add_cases runs in SpecIngest
MaxLookups == 1         \* search calls in SpecIngest
MaxStored == 5          \* turns stored in a session in SpecHistory

\* ------------------------------------------------------- program constants
MaxSessionTurns == 10   \* rag_service.py:93  len(...) > 10 / [-10:]
DefaultMaxMessages == 4 \* rag_service.py:65  max_messages: int = 4
PreviewLen == 200       \* rag_service.py:77  msg['answer'][:200]
NoInfoLen == 69         \* rag_service.py:123 length of the fixed answer
ErrorPrefixLen == 47    \* rag_service.py:154 length of the text before str(e)
DefaultChunkSize == 1000 \* vectorstore.py:72 chunk_size: int = 1000
DefaultOverlap == 200   \* vectorstore.py:72  overlap: int = 200
SearchSpan == 100       \* vectorstore.py:86  end - 100

SessionIds == {"s1", "s2"}
Threads == {"t1", "t2"}
Questions == {"q1", "q2"}
None == [none |-> TRUE]
\* A local or a result: assigned a value, or not (yet) assigned
Unset == [set |-> FALSE]
Assigned(v) == [set |-> TRUE, value |-> v]

Min(a, b) == IF a < b THEN a ELSE b
Max(a, b) == IF a > b THEN a ELSE b

VARIABLES
  sessions,   \* self.sessions: session_id -> reference of its list, 0 when absent
  heap,       \* the list objects, by reference: heap[r] is a sequence of turns
  clock,      \* time.time(), read once per appended turn
  appended,   \* history variable: per session, every turn handed to list.append
  history,    \* what the last _get_session_history call returned, or None
  calls,      \* history variable: every finished get_answer call, in order
  pc,         \* per request thread: where it stands in _save_to_session
  frame,      \* per request thread: the locals of its call
  ranked,     \* the search results handed to _extract_sources
  cited,      \* what _extract_sources returned for them, once it has
  text,       \* _chunk_text: the text, as its length and the places of its
              \* sentence terminators and of its whitespace
  chunk_size, \* _chunk_text: parameter
  overlap,    \* _chunk_text: parameter
  start,      \* _chunk_text: the window start
  chunks,     \* _chunk_text: the chunks appended so far
  windows,    \* history variable: the (start, end) of every iteration
  cpc,        \* _chunk_text: "call", "loop", "done" or "raised" (IndexError)
  iters,      \* iterations of the while loop made so far
  collection, \* the ChromaDB collection: its entries, each an id and a vector
  runs,       \* history variable: every add_cases run that reached
              \* collection.add, with the ids stored before it and what it
              \* handed over
  lookups     \* history variable: every search call, with the query vector
              \* it handed to collection.query if it got that far

storeVars == <<sessions, heap, clock, appended>>
threadVars == <<pc, frame>>
sourceVars == <<ranked, cited>>
chunkVars == <<text, chunk_size, overlap, start, chunks, windows, cpc, iters>>
indexVars == <<collection, runs, lookups>>
vars == <<sessions, heap, clock, appended, history, calls, pc, frame,
          ranked, cited, text, chunk_size, overlap, start, chunks, windows,
          cpc, iters, collection, runs, lookups>>

\* ------------------------------------------------------------ session store
\* An answer string is its text and its length; a prefix keeps the text and
\* shortens the length.
Answer(kind, body, len) == [kind |-> kind, text |-> body, len |-> len]
Prefix(a, n) == [a EXCEPT !.len = Min(a.len, n)]

Turn(question, answer, ts) ==
  [question |-> question, answer |-> answer, timestamp |-> ts]

Store == [sessions |-> sessions, heap |-> heap, appended |-> appended]

\* session_id in self.sessions
HasSession(st, sid) == st.sessions[sid] # 0

\* self.sessions[session_id]
ListOf(st, sid) == st.heap[st.sessions[sid]]

\* self.sessions[session_id] = <a new list object holding `list`>
AssignList(st, sid, list) ==
  [st EXCEPT !.sessions[sid] = Len(st.heap) + 1,
             !.heap = Append(st.heap, list)]

\* <list object ref>.append(turn)
AppendTo(st, sid, ref, turn) ==
  [st EXCEPT !.heap[ref] = Append(@, turn),
             !.appended[sid] = Append(@, turn)]

\* Python's list[-n:] for n >= 0 (list[-0:] is the whole list)
PyLastN(list, n) ==
  IF n = 0 \/ n >= Len(list) THEN list
  ELSE SubSeq(list, Len(list) - n + 1, Len(list))

\* Python's list[:n] for n >= 0
PyFirstN(list, n) == SubSeq(list, 1, Min(n, Len(list)))

KeepOldest(list) == PyFirstN(list, MaxSessionTurns)
KeepOneMore(list) == PyLastN(list, MaxSessionTurns + 1)
\* self.sessions[session_id][-10:]
EvictOldest(list) == PyLastN(list, MaxSessionTurns)

SaveToDefaultSession(st, sid, question, answer, ts) ==
  LET s1 == IF ~HasSession(st, "s1") THEN AssignList(st, "s1", <<>>) ELSE st
      s2 == AppendTo(s1, "s1", s1.sessions["s1"], Turn(question, answer, ts))
  IN  IF Len(ListOf(s2, "s1")) > MaxSessionTurns
      THEN AssignList(s2, "s1", EvictOldest(ListOf(s2, "s1")))
      ELSE s2
\* _save_to_session, as one atomic call
SaveToSession(st, sid, question, answer, ts) ==
  LET s1 == IF ~HasSession(st, sid) THEN AssignList(st, sid, <<>>) ELSE st
      s2 == AppendTo(s1, sid, s1.sessions[sid], Turn(question, answer, ts))
  IN  IF Len(ListOf(s2, sid)) > MaxSessionTurns
      THEN AssignList(s2, sid, EvictOldest(ListOf(s2, sid)))
      ELSE s2

HistoryLinesUntruncated(msg) ==
  << [role |-> "client", text |-> msg.question],
     [role |-> "assistant", text |-> msg.answer, suffix |-> "..."] >>
\* lines 75-77: the two history lines a turn contributes, the answer cut to
\* its first 200 characters and followed by "..."
HistoryLines(msg) ==
  << [role |-> "client", text |-> msg.question],
     [role |-> "assistant", text |-> Prefix(msg.answer, PreviewLen),
      suffix |-> "..."] >>

RECURSIVE RenderHistory(_)
RenderHistory(messages) ==
  IF messages = <<>> THEN <<>>
  ELSE HistoryLines(Head(messages)) \o RenderHistory(Tail(messages))

\* _get_session_history
GetSessionHistory(st, sid, max_messages) ==
  IF ~HasSession(st, sid) THEN <<>>
  ELSE RenderHistory(PyLastN(ListOf(st, sid), max_messages))

\* -------------------------------------------------- SpecSession: the store
SessionAnswers == {Answer("generated", "g1", 120)}

\* EoraRAGService.__init__: self.sessions = {}
InitStore ==
  /\ sessions = [sid \in SessionIds |-> 0]
  /\ heap = <<>>
  /\ clock = 1
  /\ appended = [sid \in SessionIds |-> <<>>]

NoReads == history = None /\ calls = <<>>
IdleFrame(n) ==
  [calls_made |-> n, session_id |-> "", question |-> "", answer |-> None,
   turn |-> None, ref |-> 0, new_list |-> <<>>]
NoThreads ==
  /\ pc = [t \in Threads |-> "idle"]
  /\ frame = [t \in Threads |-> IdleFrame(0)]
NoSources == ranked = <<>> /\ cited = Unset
NoChunking ==
  /\ text = [len |-> 0, terms |-> {}, spaces |-> {}]
  /\ chunk_size = 0 /\ overlap = 0 /\ start = 0
  /\ chunks = <<>> /\ windows = <<>> /\ cpc = "idle" /\ iters = 0

\* EoraVectorStore.__init__ on a new database: get_or_create_collection
NoIndex == collection = {} /\ runs = <<>> /\ lookups = <<>>

AppendBound(sid) == IF sid = "s1" THEN MaxAppends ELSE MaxOtherAppends

SaveTurn ==
  \E sid \in SessionIds, q \in {"q1"}, a \in SessionAnswers :
    /\ Len(appended[sid]) < AppendBound(sid)
    /\ LET st == SaveToSession(Store, sid, q, a, clock)
       IN  /\ sessions' = st.sessions
           /\ heap' = st.heap
           /\ appended' = st.appended
    /\ clock' = clock + 1
    /\ UNCHANGED <<history, calls, threadVars, sourceVars, chunkVars, indexVars>>

ReadHistory ==
  \E sid \in SessionIds, m \in 1..MaxTurnsArg :
    /\ history' = [session_id |-> sid, max_messages |-> m,
                   lines |-> GetSessionHistory(Store, sid, m)]
    /\ UNCHANGED <<storeVars, calls, threadVars, sourceVars, chunkVars, indexVars>>

InitSession == InitStore /\ NoReads /\ NoThreads /\ NoSources /\ NoChunking /\ NoIndex
NextSession == SaveTurn \/ ReadHistory
SpecSession == InitSession /\ [][NextSession]_vars

\* ------------------------------------------------- retrieval and generation
\* What the collaborators can do on one request.
Error(msg, len) == [msg |-> msg, len |-> len]

\* genai.embed_content inside _get_embedding: a vector, or an exception
EmbedOutcomes ==
  { [raised |-> TRUE, error |-> Error("embedding failed", 16)],
    [raised |-> FALSE, embedding |-> <<3, 4>>] }

\* Floating-point values: a ratio num/den with den > 0, or what IEEE division
\* by zero gives (numpy warns and goes on): 0/0 is NaN, x/0 is an infinity.
NaN == [nan |-> TRUE]
Inf(sign) == [inf |-> sign]
FloatDiv(x, d) ==
  IF d # 0 THEN [num |-> x, den |-> d]
  ELSE IF x = 0 THEN NaN
  ELSE Inf(IF x > 0 THEN 1 ELSE -1)

RECURSIVE SumSquares(_)
SumSquares(v) ==
  IF v = <<>> THEN 0 ELSE Head(v) * Head(v) + SumSquares(Tail(v))

\* The square root of a perfect square
Sqrt(n) == CHOOSE r \in 0..n : r * r = n

\* np.linalg.norm(embedding_np)
Norm(v) == Sqrt(SumSquares(v))

\* line 65: embedding_np / np.linalg.norm(embedding_np), with no test of
\* the norm
Normalize(v) == [i \in DOMAIN v |-> FloatDiv(v[i], Norm(v))]

\* A vector of L2 norm 1
IsUnit(v) ==
  /\ \A i \in DOMAIN v : DOMAIN v[i] = {"num", "den"}
  /\ \E d \in 1..10 :
       /\ \A i \in DOMAIN v : v[i].den = d
       /\ SumSquares([i \in DOMAIN v |-> v[i].num]) = d * d

Meta(url, title, description) ==
  [url |-> url, title |-> title, description |-> description]
Result(content, metadata) == [content |-> content, metadata |-> metadata]

RankedResults ==
  << Result("c1", Meta("u1", "t1", "d1")),
     Result("c2", Meta("u2", "t2", "d2")),
     Result("c3", Meta("u1", "t3", "d3")) >>

\* collection.query: an exception, or the ranked matches
IndexOutcomes ==
  { [raised |-> TRUE, error |-> Error("index unavailable", 17)],
    [raised |-> FALSE, results |-> <<>>],
    [raised |-> FALSE, results |-> RankedResults] }

\* model.generate_content followed by response.text.strip(): an exception
\* (a timeout, a response without text) or the answer text
GenOutcomes ==
  { [raised |-> TRUE, error |-> Error("deadline exceeded", 17)],
    [raised |-> TRUE, error |-> Error("response has no text", 20)],
    [raised |-> FALSE, text |-> Answer("generated", "g1", 450)] }

\* The collaborators' behaviour on one request. A collaborator the request
\* never reaches (the index after a failed embedding, the generator without
\* results) has no behaviour to choose.
NotCalled == [called |-> FALSE]
Scenarios ==
  { sc \in [emb : EmbedOutcomes,
            idx : IndexOutcomes \cup {NotCalled},
            gen : GenOutcomes \cup {NotCalled}] :
      /\ (sc.idx = NotCalled) <=> sc.emb.raised
      /\ (sc.gen = NotCalled) <=>
           (sc.idx = NotCalled \/ sc.idx.raised \/ sc.idx.results = <<>>) }

\* _get_embedding: an exception is caught and None returned; the vector is
\* normalized otherwise
GetEmbedding(emb) ==
  IF emb.raised THEN None ELSE [normalized |-> Normalize(emb.embedding)]

SearchRaisesOnEmbeddingFailure(emb, idx) ==
  IF emb.raised
  THEN [raised |-> TRUE, error |-> emb.error, index_queried |-> FALSE]
  ELSE IF idx.raised
  THEN [raised |-> TRUE, error |-> idx.error, index_queried |-> TRUE]
  ELSE [raised |-> FALSE, results |-> idx.results, index_queried |-> TRUE]
\* EoraVectorStore.search
Search(emb, idx) ==
  LET query_embedding == GetEmbedding(emb)
  IN  IF query_embedding = None
      THEN [raised |-> FALSE, results |-> <<>>, index_queried |-> FALSE]
      ELSE IF idx.raised
      THEN [raised |-> TRUE, error |-> idx.error, index_queried |-> TRUE]
      ELSE [raised |-> FALSE, results |-> idx.results, index_queried |-> TRUE]

\* ---------------------------------------------------------- context builder
RECURSIVE ContextFrom(_, _)
ContextFrom(search_results, i) ==
  IF i > Len(search_results) THEN <<>>
  ELSE << [n |-> i,
           title |-> search_results[i].metadata.title,
           url |-> search_results[i].metadata.url,
           description |-> search_results[i].metadata.description,
           content |-> search_results[i].content] >>
       \o ContextFrom(search_results, i + 1)

\* _build_context: blocks numbered from 1 in retriever order
BuildContext(search_results) == ContextFrom(search_results, 1)

\* _build_prompt
BuildPrompt(question, context, is_first_message, chat_history) ==
  [question |-> question,
   context |-> context,
   greeting_instruction |-> IF is_first_message THEN "greet" ELSE "do not greet",
   history_context |-> chat_history]

\* _extract_sources: the loop over search_results from index i on
RECURSIVE ExtractFrom(_, _, _, _)
ExtractFrom(search_results, i, sources, seen_urls) ==
  IF i > Len(search_results) THEN sources
  ELSE LET metadata == search_results[i].metadata
           url == metadata.url
       IN  IF url \notin seen_urls
           THEN ExtractFrom(search_results, i + 1,
                            Append(sources, [title |-> metadata.title,
                                             url |-> url,
                                             description |-> metadata.description]),
                            seen_urls \cup {url})
           ELSE ExtractFrom(search_results, i + 1, sources, seen_urls)

ExtractSourcesNoDedup(search_results) ==
  [i \in DOMAIN search_results |->
     [title |-> search_results[i].metadata.title,
      url |-> search_results[i].metadata.url,
      description |-> search_results[i].metadata.description]]
\* _extract_sources
ExtractSources(search_results) == ExtractFrom(search_results, 1, <<>>, {})

\* ------------------------------------------------------------- orchestrator
NoInfoAnswer == Answer("no_info", "no relevant information", NoInfoLen)
ErrorAnswer(e) == Answer("error", e.msg, ErrorPrefixLen + e.len)


\* What a finished call leaves behind: the store, what the caller got, and
\* the locals the call computed on its way (Unset when never assigned).
Outcome(st, answer, sources, is_first, chat_history, prompt, generated, queried) ==
  [st |-> st,
   ret |-> [answer |-> answer, sources |-> sources, propagated |-> FALSE],
   trace |-> [is_first_message |-> is_first, chat_history |-> chat_history,
              prompt |-> prompt, generator_called |-> generated,
              index_queried |-> queried]]

NoResultsNotRecorded(st, question, sid, ts, queried) ==
  Outcome(st, NoInfoAnswer, <<>>, Unset, Unset, Unset, FALSE, queried)
\* get_answer, lines 122-125: nothing retrieved
NoResults(st, question, sid, ts, queried) ==
  Outcome(SaveToSession(st, sid, question, NoInfoAnswer, ts),
          NoInfoAnswer, <<>>, Unset, Unset, Unset, FALSE, queried)

HandleExceptionNoSave(st, question, sid, e, ts, is_first, chat_history, prompt, generated) ==
  Outcome(st, ErrorAnswer(e), <<>>, is_first, chat_history, prompt, generated, TRUE)
HandleExceptionGeneric(st, question, sid, e, ts, is_first, chat_history, prompt, generated) ==
  LET answer == Answer("error", "internal error", ErrorPrefixLen)
  IN  Outcome(SaveToSession(st, sid, question, answer, ts),
              answer, <<>>, is_first, chat_history, prompt, generated, TRUE)
\* get_answer, lines 152-156: except Exception as e
HandleException(st, question, sid, e, ts, is_first, chat_history, prompt, generated) ==
  Outcome(SaveToSession(st, sid, question, ErrorAnswer(e), ts),
          ErrorAnswer(e), <<>>, is_first, chat_history, prompt, generated, TRUE)

IsFirstMessageOffByOne(st, sid) ==
  ~HasSession(st, sid) \/ Len(ListOf(st, sid)) <= 1
\* get_answer, lines 131-132: session_id not in self.sessions or len(...) == 0
IsFirstMessage(st, sid) ==
  ~HasSession(st, sid) \/ Len(ListOf(st, sid)) = 0

\* get_answer, lines 127-150: context, first-message flag, history, prompt,
\* generation, save, sources
Generate(st, question, sid, search_results, gen, ts) ==
  LET context == BuildContext(search_results)
      is_first_message == IsFirstMessage(st, sid)
      chat_history == GetSessionHistory(st, sid, DefaultMaxMessages)
      prompt == BuildPrompt(question, context, is_first_message, chat_history)
  IN  IF gen.raised
      THEN HandleException(st, question, sid, gen.error, ts,
                           Assigned(is_first_message), Assigned(chat_history),
                           Assigned(prompt), TRUE)
      ELSE Outcome(SaveToSession(st, sid, question, gen.text, ts),
                   gen.text, ExtractSources(search_results),
                   Assigned(is_first_message), Assigned(chat_history),
                   Assigned(prompt), TRUE, TRUE)

\* get_answer
GetAnswer(st, question, sid, emb, idx, gen, ts) ==
  LET found == Search(emb, idx)
  IN  IF found.raised
      THEN HandleException(st, question, sid, found.error, ts,
                           Unset, Unset, Unset, FALSE)
      ELSE IF found.results = <<>>
      THEN NoResults(st, question, sid, ts, found.index_queried)
      ELSE Generate(st, question, sid, found.results, gen, ts)

\* ----------------------------------------- Spec: requests, one after another
AskQuestion ==
  \E sid \in SessionIds, question \in Questions, sc \in Scenarios :
    /\ Len(calls) < MaxCalls
    /\ LET out == GetAnswer(Store, question, sid, sc.emb, sc.idx, sc.gen, clock)
       IN  /\ sessions' = out.st.sessions
           /\ heap' = out.st.heap
           /\ appended' = out.st.appended
           /\ calls' = Append(calls,
                 [input |-> [session_id |-> sid, question |-> question,
                             emb |-> sc.emb, idx |-> sc.idx, gen |-> sc.gen],
                  ret |-> out.ret, trace |-> out.trace])
    /\ clock' = clock + 1
    /\ UNCHANGED <<history, threadVars, sourceVars, chunkVars, indexVars>>

Init == InitStore /\ NoReads /\ NoThreads /\ NoSources /\ NoChunking /\ NoIndex
Next == AskQuestion
Spec == Init /\ [][Next]_vars

\* ------------------------------------------------------ claims under Spec
\* The finished calls of one session, in call order.
CallsOf(sid) == SelectSeq(calls, LAMBDA c : c.input.session_id = sid)

FlagTrue(c) ==
  c.trace.is_first_message.set /\ c.trace.is_first_message.value

\* C2 (as stated): for every session that was asked at least once, the
\* first-turn flag is true on exactly one of its calls.
FirstTurnFlagExactlyOnce ==
  \A sid \in SessionIds :
    LET cs == CallsOf(sid)
    IN  cs # <<>> => Cardinality({k \in DOMAIN cs : FlagTrue(cs[k])}) = 1

\* C2 (amended): the first-turn flag is true on at most one call of a session,
\* and only on the session's first call, the one that records its first Turn;
\* it is true there whenever that call gets as far as building a prompt, and
\* it is false on every later call that builds one. The greeting directive of
\* the prompt follows the flag.
FirstTurnFlagAtMostOnce ==
  \A sid \in SessionIds :
    LET cs == CallsOf(sid)
    IN  \A k \in DOMAIN cs :
          LET flag == cs[k].trace.is_first_message
          IN  /\ FlagTrue(cs[k]) => k = 1
              /\ (flag.set /\ k = 1) => flag.value
              /\ FlagTrue(cs[k]) =>
                   /\ appended[sid] # <<>>
                   /\ appended[sid][1].question = cs[k].input.question
                   /\ appended[sid][1].answer = cs[k].ret.answer
              /\ flag.set =>
                   cs[k].trace.prompt.value.greeting_instruction =
                     (IF flag.value THEN "greet" ELSE "do not greet")

FirstTurnFlagWitness ==
  \E sid \in SessionIds :
    LET cs == CallsOf(sid)
    IN  /\ Len(cs) >= 2
        /\ FlagTrue(cs[1])
        /\ cs[2].trace.is_first_message.set
        /\ ~cs[2].trace.is_first_message.value

\* C3: every get_answer call, whichever path it ends on, records exactly one
\* Turn in its session before it returns, and that Turn holds the call's
\* question and the answer the caller gets.
TurnRecordedPerCall ==
  \A sid \in SessionIds :
    LET cs == CallsOf(sid)
    IN  /\ Len(appended[sid]) = Len(cs)
        /\ \A k \in DOMAIN cs :
             /\ appended[sid][k].question = cs[k].input.question
             /\ appended[sid][k].answer = cs[k].ret.answer
        /\ cs # <<>> =>
             /\ sessions[sid] # 0
             /\ heap[sessions[sid]] # <<>>
             /\ heap[sessions[sid]][Len(heap[sessions[sid]])]
                  = appended[sid][Len(cs)]

TurnRecordedWitness ==
  \E sid \in SessionIds :
    LET cs == CallsOf(sid)
    IN  /\ Len(cs) = 3
        /\ cs[1].ret.answer.kind = "generated"
        /\ cs[2].ret.answer.kind = "error"
        /\ cs[3].ret.answer.kind = "no_info"
        /\ Len(heap[sessions[sid]]) = 3

\* The retriever returned an empty sequence on call c.
RetrievedNothing(c) ==
  \/ c.input.emb.raised
  \/ (~c.input.idx.raised /\ c.input.idx.results = <<>>)

\* The index query or the generator failed on call c.
BackendFailed(c) ==
  /\ ~c.input.emb.raised
  /\ \/ c.input.idx.raised
     \/ (c.input.gen # NotCalled /\ c.input.gen.raised)

FailureOf(c) ==
  IF c.input.idx.raised THEN c.input.idx.error ELSE c.input.gen.error

\* C4: whenever the retriever returns an empty sequence, get_answer does not
\* invoke the generator, returns the fixed no-information answer with an
\* empty source list, and records one Turn for the session.
RetrievalEmptyPath ==
  \A sid \in SessionIds :
    LET cs == CallsOf(sid)
    IN  \A k \in DOMAIN cs :
          RetrievedNothing(cs[k]) =>
            /\ ~cs[k].trace.generator_called
            /\ ~cs[k].ret.propagated
            /\ cs[k].ret.answer = NoInfoAnswer
            /\ cs[k].ret.sources = <<>>
            /\ Len(appended[sid]) = Len(cs)
            /\ appended[sid][k].question = cs[k].input.question
            /\ appended[sid][k].answer = NoInfoAnswer

RetrievalEmptyWitness ==
  \E i \in DOMAIN calls, j \in DOMAIN calls :
    /\ i < j
    /\ calls[i].input.session_id = calls[j].input.session_id
    /\ ~calls[i].input.emb.raised /\ RetrievedNothing(calls[i])
    /\ calls[j].input.emb.raised
    /\ Len(appended[calls[i].input.session_id]) >= 2

\* C5: when the index query or the generator fails, no exception reaches the
\* caller: the call returns an answer describing the error with an (empty)
\* source list, and the Turn with that answer is recorded in the session.
FailureAbsorbed ==
  \A sid \in SessionIds :
    LET cs == CallsOf(sid)
    IN  \A k \in DOMAIN cs :
          BackendFailed(cs[k]) =>
            /\ ~cs[k].ret.propagated
            /\ cs[k].ret.answer = ErrorAnswer(FailureOf(cs[k]))
            /\ cs[k].ret.sources = <<>>
            /\ Len(appended[sid]) = Len(cs)
            /\ appended[sid][k].question = cs[k].input.question
            /\ appended[sid][k].answer = ErrorAnswer(FailureOf(cs[k]))

FailureAbsorbedWitness ==
  \E i \in DOMAIN calls, j \in DOMAIN calls :
    /\ calls[i].input.session_id = calls[j].input.session_id
    /\ ~calls[i].input.emb.raised /\ calls[i].input.idx.raised
    /\ calls[j].input.gen # NotCalled /\ calls[j].input.gen.raised
    /\ calls[i].ret.answer.kind = "error"
    /\ calls[j].ret.answer.kind = "error"
    /\ Len(appended[calls[i].input.session_id]) >= 2

\* C12: when embedding the query fails, search returns an empty sequence
\* without raising and without querying the index, and the request ends with
\* the no-information answer, an empty source list and one recorded Turn,
\* never with an error answer.
EmbeddingFailureIsEmpty ==
  \A k \in DOMAIN calls :
    calls[k].input.emb.raised =>
      /\ Search(calls[k].input.emb, calls[k].input.idx) =
           [raised |-> FALSE, results |-> <<>>, index_queried |-> FALSE]
      /\ ~calls[k].trace.index_queried
      /\ ~calls[k].trace.generator_called
      /\ ~calls[k].ret.propagated
      /\ calls[k].ret.answer = NoInfoAnswer
      /\ calls[k].ret.answer.kind # "error"
      /\ calls[k].ret.sources = <<>>

EmbeddingFailureWitness ==
  /\ Len(calls) = 2
  /\ calls[1].ret.answer.kind = "generated"
  /\ calls[2].input.session_id = calls[1].input.session_id
  /\ calls[2].input.emb.raised
  /\ ~calls[2].trace.index_queried
  /\ calls[2].ret.answer = NoInfoAnswer
  /\ Len(appended[calls[2].input.session_id]) = 2

\* The history lines the earlier calls cs[1..n] of a session amount to.
RECURSIVE LinesOfCalls(_, _, _)
LinesOfCalls(cs, from, to) ==
  IF from > to THEN <<>>
  ELSE << [role |-> "client", text |-> cs[from].input.question],
          [role |-> "assistant",
           text |-> Prefix(cs[from].ret.answer, PreviewLen),
           suffix |-> "..."] >>
       \o LinesOfCalls(cs, from + 1, to)

StoredIn(ss, hp, sid) == IF ss[sid] = 0 THEN <<>> ELSE hp[ss[sid]]

\* A get_answer call for another session than s leaves s's turn list as it was.
OtherSessionsUntouched ==
  \A s \in SessionIds :
    (Len(calls') = Len(calls) + 1 /\ calls'[Len(calls')].input.session_id # s)
      => StoredIn(sessions', heap', s) = StoredIn(sessions, heap, s)

\* The history in a call's prompt is built from the turns recorded by the
\* earlier calls of the same session, and from nothing else.
HistoryFromOwnSession ==
  \A sid \in SessionIds :
    LET cs == CallsOf(sid)
    IN  \A k \in DOMAIN cs :
          cs[k].trace.chat_history.set =>
            /\ cs[k].trace.chat_history.value =
                 LinesOfCalls(cs, Max(1, k - DefaultMaxMessages), k - 1)
            /\ cs[k].trace.prompt.value.history_context =
                 cs[k].trace.chat_history.value

\* C7: a get_answer call for session s, successful or failed, leaves the turn
\* list of every other session unchanged, and the history in its prompt is
\* built only from turns previously recorded for s.
SessionIsolation == [][OtherSessionsUntouched]_vars /\ []HistoryFromOwnSession

SessionIsolationWitness ==
  /\ Len(calls) = 3
  /\ calls[1].input.session_id = "s1" /\ calls[1].input.question = "q1"
  /\ calls[2].input.session_id = "s2" /\ calls[2].input.question = "q2"
  /\ calls[2].ret.answer.kind = "error"
  /\ calls[3].input.session_id = "s1"
  /\ calls[3].trace.chat_history.set
  /\ Len(calls[3].trace.chat_history.value) = 2
  /\ Len(StoredIn(sessions, heap, "s2")) = 1

\* C1: after any sequence of appends to one session the stored list holds
\* at most 10 turns, exactly the most recently appended ones in append
\* order, and a history read never renders more than 10 turns.
StoredTurns(sid) == IF sessions[sid] = 0 THEN <<>> ELSE heap[sessions[sid]]

MostRecent(log, n) == SubSeq(log, Max(1, Len(log) - n + 1), Len(log))

SessionBounded ==
  /\ \A sid \in SessionIds :
       /\ Len(StoredTurns(sid)) <= MaxSessionTurns
       /\ StoredTurns(sid) = MostRecent(appended[sid], MaxSessionTurns)
       /\ Len(appended[sid]) = 15 => StoredTurns(sid) = SubSeq(appended[sid], 6, 15)
  /\ history # None => Len(history.lines) <= 2 * MaxSessionTurns

SessionBoundedWitness ==
  /\ Len(appended["s1"]) = 15
  /\ Len(StoredTurns("s1")) = MaxSessionTurns
  /\ StoredTurns("s1")[1] = appended["s1"][6]
  /\ history # None /\ history.session_id = "s1"
  /\ Len(history.lines) = 2 * MaxSessionTurns

\* ------------------------------------- SpecSources: _extract_sources alone
Urls == {"u1", "u2", "u3"}
Titles == {"t1", "t2"}
Descriptions == {"d1", "d2"}
ResultPool ==
  { Result("c", Meta(u, t, d)) : u \in Urls, t \in Titles, d \in Descriptions }

SeqsUpTo(S, n) == UNION { [1..k -> S] : k \in 0..n }

InitSources ==
  /\ ranked \in SeqsUpTo(ResultPool, MaxResults)
  /\ cited = Unset
  /\ InitStore /\ NoReads /\ NoThreads /\ NoChunking /\ NoIndex

Extract ==
  /\ ~cited.set
  /\ cited' = Assigned(ExtractSources(ranked))
  /\ UNCHANGED <<storeVars, history, calls, threadVars, ranked, chunkVars, indexVars>>

NextSources == Extract
SpecSources == InitSources /\ [][NextSources]_vars

\* The place of a url's first occurrence in the ranked results.
FirstOccurrence(url) ==
  CHOOSE i \in DOMAIN ranked :
    /\ ranked[i].metadata.url = url
    /\ \A j \in 1..(i - 1) : ranked[j].metadata.url # url

\* C8: _extract_sources returns each url of the results exactly once, in the
\* order of the urls' first occurrences, with the title and description of
\* that first occurrence.
SourcesDeduplicated ==
  cited.set =>
    LET out == cited.value
    IN  /\ \A i \in DOMAIN ranked :
             Cardinality({k \in DOMAIN out :
                            out[k].url = ranked[i].metadata.url}) = 1
        /\ \A k \in DOMAIN out :
             /\ \E i \in DOMAIN ranked : ranked[i].metadata.url = out[k].url
             /\ out[k].title = ranked[FirstOccurrence(out[k].url)].metadata.title
             /\ out[k].description =
                  ranked[FirstOccurrence(out[k].url)].metadata.description
        /\ \A k \in DOMAIN out, l \in DOMAIN out :
             k < l => FirstOccurrence(out[k].url) < FirstOccurrence(out[l].url)

SourcesDeduplicatedWitness ==
  /\ cited.set
  /\ Len(ranked) = 3
  /\ ranked[1].metadata.url = ranked[3].metadata.url
  /\ ranked[1].metadata.title # ranked[3].metadata.title
  /\ ranked[2].metadata.url # ranked[1].metadata.url
  /\ Len(cited.value) = 2
  /\ cited.value[1].title = ranked[1].metadata.title

\* ------------------------- SpecConc: request threads sharing self.sessions
\* One thread per request in flight (app.py hands every request to
\* rag_service.get_answer on the one shared service object). A thread switch
\* can fall between any two steps of _save_to_session: the membership test,
\* the creation of the list, the load of the list for append, the append, the
\* load and the test of the length, the load for the slice, the slice, and
\* the store of the sliced list.
ConcAnswers == {Answer("generated", "g1", 120)}
PrefillLens == {0, MaxSessionTurns - 1, MaxSessionTurns}

EmptyStore ==
  [sessions |-> [sid \in SessionIds |-> 0],
   heap |-> <<>>,
   appended |-> [sid \in SessionIds |-> <<>>]]

\* The store after n requests to "s1", served one after another
RECURSIVE Prefilled(_)
Prefilled(n) ==
  IF n = 0 THEN EmptyStore
  ELSE SaveToSession(Prefilled(n - 1), "s1", "q0",
                     Answer("generated", "g0", 120), n)

InitConc ==
  /\ \E n \in PrefillLens :
       LET st == Prefilled(n)
       IN  /\ sessions = st.sessions
           /\ heap = st.heap
           /\ appended = st.appended
           /\ clock = n + 1
  /\ NoReads /\ NoThreads /\ NoSources /\ NoChunking /\ NoIndex

SetStore(st) ==
  /\ sessions' = st.sessions
  /\ heap' = st.heap
  /\ appended' = st.appended

Goto(t, label) == pc' = [pc EXCEPT ![t] = label]

\* get_answer is entered and reaches its _save_to_session call
Call(t) ==
  \E sid \in SessionIds, q \in {"q1"}, a \in ConcAnswers :
    /\ pc[t] = "idle"
    /\ frame[t].calls_made < CallsPerThread
    /\ frame' = [frame EXCEPT ![t] =
         [IdleFrame(frame[t].calls_made + 1) EXCEPT
            !.session_id = sid, !.question = q, !.answer = a]]
    /\ Goto(t, "check")
    /\ UNCHANGED <<storeVars, history, calls, sourceVars, chunkVars, indexVars>>

\* line 83: if session_id not in self.sessions
CheckMember(t) ==
  /\ pc[t] = "check"
  /\ Goto(t, IF HasSession(Store, frame[t].session_id) THEN "load" ELSE "create")
  /\ UNCHANGED <<storeVars, frame, history, calls, sourceVars, chunkVars, indexVars>>

\* line 84: self.sessions[session_id] = []
CreateList(t) ==
  /\ pc[t] = "create"
  /\ SetStore(AssignList(Store, frame[t].session_id, <<>>))
  /\ Goto(t, "load")
  /\ UNCHANGED <<clock, frame, history, calls, sourceVars, chunkVars, indexVars>>

\* lines 86-90: self.sessions[session_id] is loaded and the turn is built
\* (time.time() is read) before append is called
LoadList(t) ==
  /\ pc[t] = "load"
  /\ frame' = [frame EXCEPT
       ![t].ref = sessions[frame[t].session_id],
       ![t].turn = Turn(frame[t].question, frame[t].answer, clock)]
  /\ clock' = clock + 1
  /\ Goto(t, "append")
  /\ UNCHANGED <<sessions, heap, appended, history, calls, sourceVars, chunkVars, indexVars>>

\* line 86: <loaded list>.append(turn)
AppendTurn(t) ==
  /\ pc[t] = "append"
  /\ SetStore(AppendTo(Store, frame[t].session_id, frame[t].ref, frame[t].turn))
  /\ Goto(t, "lenload")
  /\ UNCHANGED <<clock, frame, history, calls, sourceVars, chunkVars, indexVars>>

\* line 93: self.sessions[session_id] is loaded for len()
LenLoad(t) ==
  /\ pc[t] = "lenload"
  /\ frame' = [frame EXCEPT ![t].ref = sessions[frame[t].session_id]]
  /\ Goto(t, "lencheck")
  /\ UNCHANGED <<storeVars, history, calls, sourceVars, chunkVars, indexVars>>

\* line 93: if len(<loaded list>) > 10
LenCheck(t) ==
  /\ pc[t] = "lencheck"
  /\ Goto(t, IF Len(heap[frame[t].ref]) > MaxSessionTurns
             THEN "sliceload" ELSE "return")
  /\ UNCHANGED <<storeVars, frame, history, calls, sourceVars, chunkVars, indexVars>>

\* line 94: self.sessions[session_id] is loaded for the slice
SliceLoad(t) ==
  /\ pc[t] = "sliceload"
  /\ frame' = [frame EXCEPT ![t].ref = sessions[frame[t].session_id]]
  /\ Goto(t, "slice")
  /\ UNCHANGED <<storeVars, history, calls, sourceVars, chunkVars, indexVars>>

\* line 94: <loaded list>[-10:]
Slice(t) ==
  /\ pc[t] = "slice"
  /\ frame' = [frame EXCEPT ![t].new_list = EvictOldest(heap[frame[t].ref])]
  /\ Goto(t, "assign")
  /\ UNCHANGED <<storeVars, history, calls, sourceVars, chunkVars, indexVars>>

\* line 94: self.sessions[session_id] = <the slice>
StoreSlice(t) ==
  /\ pc[t] = "assign"
  /\ SetStore(AssignList(Store, frame[t].session_id, frame[t].new_list))
  /\ Goto(t, "return")
  /\ UNCHANGED <<clock, frame, history, calls, sourceVars, chunkVars, indexVars>>

\* get_answer returns
Return(t) ==
  /\ pc[t] = "return"
  /\ frame' = [frame EXCEPT ![t] = IdleFrame(frame[t].calls_made)]
  /\ Goto(t, "idle")
  /\ UNCHANGED <<storeVars, history, calls, sourceVars, chunkVars, indexVars>>

NextConc ==
  \E t \in Threads :
    \/ Call(t)
    \/ CheckMember(t)
    \/ CreateList(t)
    \/ LoadList(t)
    \/ AppendTurn(t)
    \/ LenLoad(t)
    \/ LenCheck(t)
    \/ SliceLoad(t)
    \/ Slice(t)
    \/ StoreSlice(t)
    \/ Return(t)

SpecConc == InitConc /\ [][NextConc]_vars

AllReturned == \A t \in Threads : pc[t] = "idle"

Range(seq) == { seq[i] : i \in DOMAIN seq }

\* C6: concurrent appends to one session are never lost: once every call has
\* returned, the Turn of every call is in the session's list unless the
\* 10-turn cap evicted it (it is not among the 10 most recently appended).
NoLostAppends ==
  AllReturned =>
    \A sid \in SessionIds :
      \A k \in DOMAIN appended[sid] :
        k > Len(appended[sid]) - MaxSessionTurns =>
          appended[sid][k] \in Range(StoredTurns(sid))

\* C16: under any interleaving of concurrent _save_to_session calls, once
\* all calls have completed every session's stored list has at most 10
\* turns, even though turns may have been lost.
QuiescentSessionBounded ==
  AllReturned => \A sid \in SessionIds : Len(StoredTurns(sid)) <= MaxSessionTurns

QuiescentSessionBoundedWitness ==
  /\ AllReturned
  /\ \A t \in Threads : frame[t].calls_made >= 1
  /\ Len(appended["s1"]) = MaxSessionTurns + 2
  /\ Len(StoredTurns("s1")) = MaxSessionTurns
  /\ \E k \in DOMAIN appended["s1"] :
       /\ k > Len(appended["s1"]) - MaxSessionTurns
       /\ appended["s1"][k] \notin Range(StoredTurns("s1"))

\* --------------------------------------------------- chunker: _chunk_text
\* A text is its length, the set of its positions (from 0) that hold a
\* sentence terminator ('.', '!' or '?') and the set of those that hold
\* whitespace; every other position holds another character.
Text(len, terms, spaces) == [len |-> len, terms |-> terms, spaces |-> spaces]

\* Python's text[i]: the position read, negative i counting from the end
PyPos(t, i) == IF i < 0 THEN i + t.len ELSE i
InRange(t, i) == -t.len <= i /\ i < t.len

\* text[i] in '.!?'
IsTerminator(t, i) == PyPos(t, i) \in t.terms

SetMax(S) == CHOOSE x \in S : \A y \in S : y <= x

\* lines 86-89: for i in range(end, low, -1): if text[i] in '.!?': the loop
\* stops at the highest terminator among end, end-1, ..., low+1 and moves end
\* to just after it; with none it leaves end as it is, unless an i below
\* -len(text) is reached, where text[i] raises IndexError (the positions in
\* range are read first: they are the higher ones).
ScanDown(t, end, low) ==
  LET \* the i with text[i] in '.!?': a terminator's place, or that place
      \* counted from the end of the text
      terminators == t.terms \cup {p - t.len : p \in t.terms}
      hits == {i \in terminators : low < i /\ i <= end /\ InRange(t, i)}
  IN  IF hits # {} THEN [raised |-> FALSE, end |-> SetMax(hits) + 1]
      ELSE IF low < end /\ low + 1 < -t.len
      THEN [raised |-> TRUE, end |-> end]
      ELSE [raised |-> FALSE, end |-> end]

\* lines 81-89: end = start + chunk_size, moved to just after the nearest
\* sentence terminator at or below it, down to
\* max(start + chunk_size//2, end - 100) exclusive
SentenceEnd(t, from, size) ==
  LET end == from + size
  IN  IF end < t.len
      THEN ScanDown(t, end, Max(from + (size \div 2), end - SearchSpan))
      ELSE [raised |-> FALSE, end |-> end]

\* Python's text[a:b]: the positions it covers, from .from up to .to - 1
PyBound(t, i) == IF i < 0 THEN Max(i + t.len, 0) ELSE Min(i, t.len)
PySlice(t, a, b) == [from |-> PyBound(t, a), to |-> PyBound(t, b)]

RECURSIVE LStrip(_, _, _)
LStrip(t, a, b) == IF a < b /\ a \in t.spaces THEN LStrip(t, a + 1, b) ELSE a
RECURSIVE RStrip(_, _, _)
RStrip(t, a, b) == IF a < b /\ (b - 1) \in t.spaces THEN RStrip(t, a, b - 1) ELSE b

\* str.strip() of a slice: what is left between its first and its last
\* character that is not whitespace
Strip(t, span) ==
  LET a == LStrip(t, span.from, span.to)
  IN  [from |-> a, to |-> RStrip(t, a, span.to)]

\* a string is falsy when it is empty
IsEmpty(span) == span.from >= span.to

NextStartNoOverlap(end, ov) == end
\* line 95: start = end - overlap
NextStart(end, ov) == end - ov

\* line 74-78: a text no longer than chunk_size is returned whole
ChunkCall ==
  /\ cpc = "call"
  /\ IF text.len <= chunk_size
     THEN /\ chunks' = << [start |-> 0, end |-> text.len,
                           content |-> [from |-> 0, to |-> text.len]] >>
          /\ cpc' = "done"
     ELSE /\ chunks' = <<>>
          /\ cpc' = "loop"
  /\ start' = 0
  /\ UNCHANGED <<text, chunk_size, overlap, windows, iters>>
  /\ UNCHANGED <<storeVars, history, calls, threadVars, sourceVars, indexVars>>

\* lines 80-97: one iteration of the while loop over the text t
ChunkBody(t) ==
  LET found == SentenceEnd(t, start, chunk_size)
      end == found.end
      chunk == Strip(t, PySlice(t, start, end))
  IN  /\ iters' = iters + 1
      /\ windows' = Append(windows, [start |-> start, end |-> end])
      /\ IF found.raised
         THEN /\ cpc' = "raised"
              /\ UNCHANGED <<start, chunks>>
         ELSE /\ chunks' = IF ~IsEmpty(chunk)
                           THEN Append(chunks, [start |-> start, end |-> end,
                                                content |-> chunk])
                           ELSE chunks
              /\ start' = NextStart(end, overlap)
              /\ cpc' = IF NextStart(end, overlap) >= t.len THEN "done" ELSE "loop"
      /\ UNCHANGED <<text, chunk_size, overlap>>
      /\ UNCHANGED <<storeVars, history, calls, threadVars, sourceVars, indexVars>>

\* ---------------------------------- SpecChunk: small texts, any parameters
ChunkSizes == {4, 5}

SmallTexts ==
  { Text(n, terms, spaces) :
      n \in 1..MaxTextLen, terms \in SUBSET (0..(MaxTextLen - 1)),
      spaces \in SUBSET (0..(MaxTextLen - 1)) }

InitChunk ==
  /\ chunk_size \in ChunkSizes
  /\ overlap \in 0..(2 * chunk_size)
  /\ text \in { t \in SmallTexts :
                  /\ t.terms \subseteq 0..(t.len - 1)
                  /\ t.spaces \subseteq (0..(t.len - 1)) \ t.terms
                  /\ Cardinality(t.spaces) <= MaxSpaces }
  /\ start = 0 /\ chunks = <<>> /\ windows = <<>> /\ cpc = "call" /\ iters = 0
  /\ InitStore /\ NoReads /\ NoThreads /\ NoSources /\ NoIndex

ChunkIter ==
  /\ cpc = "loop"
  /\ iters < MaxIters
  /\ ChunkBody(text)

NextChunk == ChunkCall \/ ChunkIter
SpecChunk == InitChunk /\ [][NextChunk]_vars

\* C9: for every text longer than chunk_size and every placement of sentence
\* terminators, the window start strictly advances on every iteration of
\* _chunk_text (so the loop ends), also when overlap is chunk_size - 1 and
\* when overlap >= chunk_size.
ChunkWindowAdvances ==
  /\ \A k \in 1..(Len(windows) - 1) : windows[k + 1].start > windows[k].start
  /\ (cpc = "loop" /\ windows # <<>>) => start > windows[Len(windows)].start

\* The characters of the text that window k covers: text[start:end]
WindowSpan(k) == PySlice(text, windows[k].start, windows[k].end)

\* How many characters of the text windows k and k + 1 both cover
Shared(k) ==
  LET a == WindowSpan(k)
      b == WindowSpan(k + 1)
  IN  Max(0, Min(a.to, b.to) - Max(a.from, b.from))

WindowTexts(t, from, size) ==
  { Text(t.len, {}, t.spaces) } \cup
  { Text(t.len, {i}, t.spaces) :
      i \in { j \in (Max(from + (size \div 2), from + size - SearchSpan) + 1)
                    ..(from + size) : 0 <= j /\ j < t.len } }

InitDoc ==
  /\ text = Text(DocLen, {}, {})
  /\ chunk_size = DefaultChunkSize
  /\ overlap = DefaultOverlap
  /\ start = 0 /\ chunks = <<>> /\ windows = <<>> /\ cpc = "call" /\ iters = 0
  /\ InitStore /\ NoReads /\ NoThreads /\ NoSources /\ NoIndex

ChunkIterAnyText ==
  /\ cpc = "loop"
  /\ iters < MaxIters
  /\ \E t \in WindowTexts(text, start, chunk_size) : ChunkBody(t)

NextDoc == ChunkCall \/ ChunkIterAnyText
SpecDoc == InitDoc /\ [][NextDoc]_vars

\* C10: a 2500-character text with no whitespace-only window, chunked with
\* chunk_size=1000 and overlap=200, gives exactly 4 chunks wherever its
\* sentence terminators are.
FourChunks ==
  /\ cpc # "raised"
  /\ Len(chunks) <= 4
  /\ cpc = "loop" => iters < 4
  /\ cpc = "done" => Len(chunks) = 4

FourChunksWitness ==
  /\ cpc = "done"
  /\ Len(chunks) = 4
  /\ windows[1].end < DefaultChunkSize
  /\ windows[2].end < windows[2].start + DefaultChunkSize
  /\ windows[3].end > windows[3].start + DefaultChunkSize
  /\ windows[3].end < DocLen
  /\ windows[4].end > DocLen

\* ------------- SpecIngest: add_cases, reset_collection and search on the index
\* What the embedding backend can do for one chunk or query: raise, or return
\* a vector, the zero vector among them.
IngestOutcomes ==
  { [raised |-> TRUE, error |-> Error("embedding failed", 16)],
    [raised |-> FALSE, embedding |-> <<0, 0>>],
    [raised |-> FALSE, embedding |-> <<3, 4>>] }

\* line 138: f"case_{len(documents)}_{chunk_id}": the two numbers in decimal
\* between fixed separators, so two ids are equal exactly when both numbers are
CaseId(n, c) == <<"case", n, c>>

\* A cases file, as far as add_cases depends on it: for every case, the
\* backend's outcome for each of its chunks
CaseFiles ==
  UNION { [1..k -> UNION { [1..c -> IngestOutcomes] : c \in 1..MaxChunks }] :
            k \in 1..MaxCases }

EmptyBatch == [documents |-> 0, embeddings |-> <<>>, ids |-> <<>>, chunk_id |-> 0]

\* lines 122-139: the chunks of one case, from chunk i on
RECURSIVE IngestChunks(_, _, _)
IngestChunks(outs, i, acc) ==
  IF i > Len(outs) THEN acc
  ELSE LET embedding == GetEmbedding(outs[i])
       IN  IF embedding = None
           THEN IngestChunks(outs, i + 1, acc)
           ELSE LET n == acc.documents + 1
                IN  IngestChunks(outs, i + 1,
                      [documents |-> n,
                       embeddings |-> Append(acc.embeddings, embedding.normalized),
                       ids |-> Append(acc.ids, CaseId(n, acc.chunk_id)),
                       chunk_id |-> acc.chunk_id + 1])

\* lines 108-139: the loop over the cases, from case k on
RECURSIVE IngestCases(_, _, _)
IngestCases(cases, k, acc) ==
  IF k > Len(cases) THEN acc
  ELSE IngestCases(cases, k + 1, IngestChunks(cases[k], 1, acc))

IdsOf(coll) == { e.id : e \in coll }

\* collection.add: the collections it can leave behind. The backend may
\* refuse any batch (and refuses an empty one and one that repeats an id),
\* leaving the collection as it was; otherwise it stores the entries whose
\* id is not yet stored.
CollectionAdd(coll, batch) ==
  {coll} \cup
  (IF /\ batch.ids # <<>>
      /\ \A i, j \in DOMAIN batch.ids : batch.ids[i] = batch.ids[j] => i = j
   THEN { coll \cup { [id |-> batch.ids[i], embedding |-> batch.embeddings[i]] :
                        i \in { j \in DOMAIN batch.ids :
                                  batch.ids[j] \notin IdsOf(coll) } } }
   ELSE {})

\* add_cases
AddCases ==
  \E cases \in CaseFiles :
    /\ Len(runs) < MaxRuns
    /\ LET batch == IngestCases(cases, 1, EmptyBatch)
       IN  /\ collection' \in CollectionAdd(collection, batch)
           /\ runs' = Append(runs, [stored_before |-> IdsOf(collection),
                                    ids |-> batch.ids,
                                    embeddings |-> batch.embeddings])
    /\ UNCHANGED <<lookups, storeVars, history, calls, threadVars, sourceVars,
                   chunkVars>>

\* reset_collection: the collection is deleted and created anew
ResetCollection ==
  /\ collection # {}
  /\ collection' = {}
  /\ UNCHANGED <<runs, lookups, storeVars, history, calls, threadVars,
                 sourceVars, chunkVars>>

\* search, up to its collection.query call
SearchIndex ==
  \E emb \in IngestOutcomes :
    /\ Len(lookups) < MaxLookups
    /\ LET query_embedding == GetEmbedding(emb)
       IN  lookups' = Append(lookups,
             IF query_embedding = None
             THEN [queried |-> FALSE]
             ELSE [queried |-> TRUE, vector |-> query_embedding.normalized])
    /\ UNCHANGED <<collection, runs, storeVars, history, calls, threadVars,
                   sourceVars, chunkVars>>

InitIngest ==
  InitStore /\ NoReads /\ NoThreads /\ NoSources /\ NoChunking /\ NoIndex
NextIngest == AddCases \/ ResetCollection \/ SearchIndex
SpecIngest == InitIngest /\ [][NextIngest]_vars

\* C13: a vector of norm 0 from the backend is reported as a failure by
\* _get_embedding, so every vector that add_cases hands to the index, that
\* the index stores, or that search uses as a query vector is a unit vector.
OnlyUnitVectors ==
  /\ \A k \in DOMAIN runs :
       \A i \in DOMAIN runs[k].embeddings : IsUnit(runs[k].embeddings[i])
  /\ \A e \in collection : IsUnit(e.embedding)
  /\ \A k \in DOMAIN lookups :
       lookups[k].queried => IsUnit(lookups[k].vector)

\* C14: no id generated for a new entry equals the id of another entry of the
\* same run or of an entry already stored in the collection, with or without
\* a reset between the runs.
IdsUnique ==
  \A k \in DOMAIN runs :
    /\ \A i, j \in DOMAIN runs[k].ids :
         runs[k].ids[i] = runs[k].ids[j] => i = j
    /\ \A i \in DOMAIN runs[k].ids : runs[k].ids[i] \notin runs[k].stored_before

\* ------------------- SpecHistory: _get_session_history on any session state
\* The question and the answer of a stored turn: answers shorter than, as
\* long as, and longer than the preview
HistoryTurns ==
  { [question |-> "q1", answer |-> Answer("generated", "g1", 120)],
    [question |-> "q2", answer |-> Answer("generated", "g2", PreviewLen)],
    [question |-> "q2", answer |-> Answer("generated", "g3", 450)] }

\* The store after the requests qa[1], ..., qa[n] to "s1"
RECURSIVE StoreAfter(_, _)
StoreAfter(qa, n) ==
  IF n = 0 THEN EmptyStore
  ELSE SaveToSession(StoreAfter(qa, n - 1), "s1",
                     qa[n].question, qa[n].answer, n)

InitHistory ==
  /\ \E qa \in SeqsUpTo(HistoryTurns, MaxStored) :
       LET st == StoreAfter(qa, Len(qa))
       IN  /\ sessions = st.sessions
           /\ heap = st.heap
           /\ appended = st.appended
           /\ clock = Len(qa) + 1
  /\ NoReads /\ NoThreads /\ NoSources /\ NoChunking /\ NoIndex

NextHistory == ReadHistory
SpecHistory == InitHistory /\ [][NextHistory]_vars

\* What the read of `history` should have rendered: the last
\* min(max_messages, stored) turns of its session, oldest first, each as the
\* client's question and at most the first 200 characters of the answer.
HistoryRendersLastTurns ==
  history # None =>
    LET stored == StoredTurns(history.session_id)
        n == Min(history.max_messages, Len(stored))
    IN  /\ Len(history.lines) = 2 * n
        /\ \A j \in 1..n :
             LET turn == stored[Len(stored) - n + j]
                 asked == history.lines[2 * j - 1]
                 said == history.lines[2 * j]
             IN  /\ asked.role = "client" /\ asked.text = turn.question
                 /\ said.role = "assistant"
                 /\ said.text.text = turn.answer.text
                 /\ said.text.len = Min(turn.answer.len, PreviewLen)
        /\ sessions[history.session_id] = 0 => history.lines = <<>>

\* A read leaves the store as it is: no session is created
ReadCreatesNothing ==
  history' # history => (sessions' = sessions /\ heap' = heap)

\* C15: for every session state and every max_messages >= 1,
\* _get_session_history renders exactly the last min(max_messages, stored)
\* turns of the session, oldest first, each answer cut to at most its first
\* 200 characters; for an unknown session it returns an empty history and
\* does not create the session.
HistoryRead == []HistoryRendersLastTurns /\ [][ReadCreatesNothing]_vars

HistoryReadWitness ==
  /\ history # None
  /\ history.session_id = "s1" /\ history.max_messages = 3
  /\ Len(StoredTurns("s1")) = MaxStored
  /\ Len(history.lines) = 6
  /\ StoredTurns("s1")[MaxStored - 1].answer.len > PreviewLen
  /\ history.lines[4].text.len = PreviewLen
  /\ history.lines[2].text.len < PreviewLen
  /\ sessions["s2"] = 0
====
